---------------------------- MODULE Spec2Model ----------------------------
(***************************************************************************)
(* A model of two parts of dmt:                                            *)
(*                                                                         *)
(*   - modlet_xml/command.rs : the Command / InstructionSet value types,   *)
(*     Command::from_str, AsRef<str>, Display, Command::set and            *)
(*     Command::write (the writer is an in-memory event sink);             *)
(*   - dmt/commands/package.rs : load, package and run, with the rayon     *)
(*     par_iter().fold().reduce() pipeline of run unfolded into its        *)
(*     split / fold / reduce steps.                                        *)
(*                                                                         *)
(* Byte strings (Vec<u8>, String) are sequences of byte values; names of   *)
(* variants and tags are TLA+ strings.  Option<T> is a sequence of length  *)
(* 0 (None) or 1 (Some).                                                   *)
(***************************************************************************)
EXTENDS Naturals, Sequences, FiniteSets

VARIABLES
    \* ---- command.rs ----
    input,      \* the tag name last given to Command::from_str
    cmd,        \* the Command value being built
    lastIs,     \* the InstructionSet last given to Command::set
    nset,       \* how many set calls cmd has been through (2 = two or more)
    op,         \* the operation that produced the current state
    out,        \* the events the last Command::write sent to its writer
    res,        \* the result of the last Command::write
    \* ---- package.rs ----
    settings,   \* SETTINGS: game_directory and verbosity
    termOk,     \* whether writes to the terminal succeed
    paths,      \* run's `modlets` argument: one file-system record per path
    pc,         \* where run is
    segs,       \* the pieces the parallel iterator is split into
    constructed,\* the paths Modlet::new has been called on
    loadRes,    \* per path: what load returned ("" while not called)
    loaded_modlets, \* the result of the fold/reduce
    packaged,   \* Option: the modlet list package was called with
    reported,   \* Option: the failure count written to the terminal
    result      \* what run returned

cmdVars == <<input, cmd, lastIs, nset, op, out, res>>
runVars == <<settings, termOk, paths, pc, segs, constructed, loadRes,
             loaded_modlets, packaged, reported, result>>
vars == <<input, cmd, lastIs, nset, op, out, res,
          settings, termOk, paths, pc, segs, constructed, loadRes,
          loaded_modlets, packaged, reported, result>>

-----------------------------------------------------------------------------
(* Bounds *)

\* longest `values` vector of an InstructionSet
MaxValues == 2
\* most source modlet paths given to run
MaxModlets == 3

-----------------------------------------------------------------------------
(* command.rs : data *)

None == <<>>
Some(x) == <<x>>
IsSome(o) == Len(o) = 1

\* enum CsvInstruction { Add(char), Remove(char) }
CsvInstruction == [kind : {"Add", "Remove"}, ch : {97}]

\* quick_xml events, as far as write and values_to_strings look at them: the
\* kind, for an element its name and attributes, and the raw bytes the event
\* dereferences to.
Ev(kind, name, attrs, bytes) ==
    [kind |-> kind, name |-> name, attrs |-> attrs, bytes |-> bytes]

\* The events an InstructionSet's values are drawn from: a text "a&" and a
\* text whose single byte 0xFF is not UTF-8.
Events == {Ev("Text", "", <<>>, <<97, 38>>), Ev("Text", "", <<>>, <<255>>)}

SeqsUpTo(S, n) == UNION {[1..k -> S] : k \in 0..n}

\* struct InstructionSet { attribute, csv_op, values, xpath }
InstructionSet ==
    [attribute : {None, Some(<<120>>)},
     csv_op    : {None} \cup {Some(c) : c \in CsvInstruction},
     values    : SeqsUpTo(Events, MaxValues),
     xpath     : {<<>>, <<47>>}]

\* InstructionSet::new() / Default
new == [attribute |-> None, csv_op |-> None, values |-> <<>>, xpath |-> <<>>]

\* enum Command: the variant, the InstructionSet of the eight variants that
\* carry one (payload), the text of Comment, the Option<String> of StartTag.
Cmd(variant, payload, text, tag) ==
    [variant |-> variant, payload |-> payload, text |-> text, tag |-> tag]

Command_Append(is)          == Cmd("Append", Some(is), <<>>, None)
Command_Comment(text)       == Cmd("Comment", None, text, None)
Command_Csv(is)             == Cmd("Csv", Some(is), <<>>, None)
Command_InsertAfter(is)     == Cmd("InsertAfter", Some(is), <<>>, None)
Command_InsertBefore(is)    == Cmd("InsertBefore", Some(is), <<>>, None)
Command_NoOp                == Cmd("NoOp", None, <<>>, None)
Command_Remove(is)          == Cmd("Remove", Some(is), <<>>, None)
Command_RemoveAttribute(is) == Cmd("RemoveAttribute", Some(is), <<>>, None)
Command_Set(is)             == Cmd("Set", Some(is), <<>>, None)
Command_SetAttribute(is)    == Cmd("SetAttribute", Some(is), <<>>, None)
Command_StartTag(tag)       == Cmd("StartTag", None, <<>>, tag)
Command_Unknown             == Cmd("Unknown", None, <<>>, None)

-----------------------------------------------------------------------------
(* command.rs : functions *)

\* std::str::from_utf8(..).unwrap_or_default().  Of the bytes of Events only
\* 0xFF is above 0x7F, and 0xFF occurs in no UTF-8 encoding, so a byte string
\* over them is UTF-8 exactly when every byte is ASCII.
from_utf8_or_default(bytes) ==
    IF \A i \in 1..Len(bytes) : bytes[i] < 128 THEN bytes ELSE <<>>

\* [String]::join(sep)
RECURSIVE join(_, _)
join(strs, sep) ==
    IF Len(strs) = 0 THEN <<>>
    ELSE IF Len(strs) = 1 THEN strs[1]
    ELSE strs[1] \o sep \o join(Tail(strs), sep)

\* InstructionSet::values_to_strings
values_to_strings(is) ==
    [i \in 1..Len(is.values) |-> from_utf8_or_default(is.values[i].bytes)]

\* impl AsRef<str> for Command
as_ref(c) ==
    CASE c.variant = "Append"          -> "append"
      [] c.variant = "Comment"         -> "comment"
      [] c.variant = "Csv"             -> "csv"
      [] c.variant = "InsertAfter"     -> "insert_after"
      [] c.variant = "InsertBefore"    -> "insert_before"
      [] c.variant = "NoOp"            -> "no_op"
      [] c.variant = "Remove"          -> "remove"
      [] c.variant = "RemoveAttribute" -> "remove_attribute"
      [] c.variant = "Set"             -> "set"
      [] c.variant = "SetAttribute"    -> "set_attribute"
      [] c.variant = "StartTag"        -> "start_tag"
      [] c.variant = "Unknown"         -> "unknown"

\* impl Display for Command
fmt(c) ==
    CASE c.variant = "Append"          -> "append"
      [] c.variant = "Comment"         -> "comment"
      [] c.variant = "Csv"             -> "csv"
      [] c.variant = "InsertAfter"     -> "insert_after"
      [] c.variant = "InsertBefore"    -> "insert_before"
      [] c.variant = "NoOp"            -> "no_op"
      [] c.variant = "Remove"          -> "remove"
      [] c.variant = "RemoveAttribute" -> "remove_attribute"
      [] c.variant = "Set"             -> "set"
      [] c.variant = "SetAttribute"    -> "set_attribute"
      [] c.variant = "StartTag"        -> "start_tag"
      [] c.variant = "Unknown"         -> "unknown"

\* from_str with the insert_after and insert_before arms exchanged
from_str_swapped(s) ==
    CASE s = "append"           -> Command_Append(new)
      [] s = "comment"          -> Command_Comment(<<>>)
      [] s = "csv"              -> Command_Csv(new)
      [] s = "insert_after"     -> Command_InsertBefore(new)
      [] s = "insert_before"    -> Command_InsertAfter(new)
      [] s = "no_op"            -> Command_NoOp
      [] s = "remove"           -> Command_Remove(new)
      [] s = "remove_attribute" -> Command_RemoveAttribute(new)
      [] s = "set"              -> Command_Set(new)
      [] s = "set_attribute"    -> Command_SetAttribute(new)
      [] s = "start_tag"        -> Command_StartTag(None)
      [] OTHER                  -> Command_Unknown

\* Command::from_str
from_str(s) ==
    CASE s = "append"           -> Command_Append(new)
      [] s = "comment"          -> Command_Comment(<<>>)
      [] s = "csv"              -> Command_Csv(new)
      [] s = "insert_after"     -> Command_InsertAfter(new)
      [] s = "insert_before"    -> Command_InsertBefore(new)
      [] s = "no_op"            -> Command_NoOp
      [] s = "remove"           -> Command_Remove(new)
      [] s = "remove_attribute" -> Command_RemoveAttribute(new)
      [] s = "set"              -> Command_Set(new)
      [] s = "set_attribute"    -> Command_SetAttribute(new)
      [] s = "start_tag"        -> Command_StartTag(None)
      [] OTHER                  -> Command_Unknown

\* set with a Comment arm that extends the old text instead of replacing it
set_appending(c, is) ==
    CASE c.variant = "Append"          -> Command_Append(is)
      [] c.variant = "Comment"         ->
             Command_Comment(c.text \o join(values_to_strings(is), <<44>>))
      [] c.variant = "Csv"             -> Command_Csv(is)
      [] c.variant = "InsertAfter"     -> Command_InsertAfter(is)
      [] c.variant = "InsertBefore"    -> Command_InsertBefore(is)
      [] c.variant = "NoOp"            -> Command_NoOp
      [] c.variant = "Remove"          -> Command_Remove(is)
      [] c.variant = "RemoveAttribute" -> Command_RemoveAttribute(is)
      [] c.variant = "Set"             -> Command_Set(is)
      [] c.variant = "SetAttribute"    -> Command_SetAttribute(is)
      [] c.variant = "StartTag"        -> Command_StartTag(None)
      [] c.variant = "Unknown"         -> Command_Unknown

\* Command::set
set(c, is) ==
    CASE c.variant = "Append"          -> Command_Append(is)
      [] c.variant = "Comment"         ->
             Command_Comment(join(values_to_strings(is), <<44>>))
      [] c.variant = "Csv"             -> Command_Csv(is)
      [] c.variant = "InsertAfter"     -> Command_InsertAfter(is)
      [] c.variant = "InsertBefore"    -> Command_InsertBefore(is)
      [] c.variant = "NoOp"            -> Command_NoOp
      [] c.variant = "Remove"          -> Command_Remove(is)
      [] c.variant = "RemoveAttribute" -> Command_RemoveAttribute(is)
      [] c.variant = "Set"             -> Command_Set(is)
      [] c.variant = "SetAttribute"    -> Command_SetAttribute(is)
      [] c.variant = "StartTag"        -> Command_StartTag(None)
      [] c.variant = "Unknown"         -> Command_Unknown

\* quick_xml's escaping of text content, on the bytes it changes in every
\* version: & < > become &amp; &lt; &gt;
RECURSIVE escape(_)
escape(bytes) ==
    IF Len(bytes) = 0 THEN <<>>
    ELSE (CASE bytes[1] = 38 -> <<38, 97, 109, 112, 59>>
            [] bytes[1] = 60 -> <<38, 108, 116, 59>>
            [] bytes[1] = 62 -> <<38, 103, 116, 59>>
            [] OTHER         -> <<bytes[1]>>) \o escape(Tail(bytes))

\* Command::write on a fresh in-memory writer: the events written and the
\* result returned.  An attribute given as a pair of byte slices is written
\* as it is, without escaping.
write(c) ==
    CASE c.variant = "Append" ->
             [out |-> <<Ev("Start", "append",
                           <<[key |-> "xpath", value |-> c.payload[1].xpath]>>, <<>>)>>
                      \o c.payload[1].values
                      \o <<Ev("End", "append", <<>>, <<>>)>>,
              res |-> "Ok"]
      [] c.variant = "Comment" ->
             [out |-> <<Ev("Comment", "", <<>>, c.text)>>, res |-> "Ok"]
      [] c.variant = "Set" ->
             [out |-> <<Ev("Start", "set",
                           <<[key |-> "xpath", value |-> c.payload[1].xpath]>>, <<>>),
                        Ev("Text", "", <<>>,
                           escape(join(values_to_strings(c.payload[1]), <<44>>))),
                        Ev("End", "set", <<>>, <<>>)>>,
              res |-> "Ok"]
      [] OTHER -> [out |-> <<>>, res |-> "Ok"]

-----------------------------------------------------------------------------
(* command.rs : the state machine *)

\* Tag names given to from_str: the eleven recognized ones and four others.
Recognized ==
    {"append", "comment", "csv", "insert_after", "insert_before", "no_op",
     "remove", "remove_attribute", "set", "set_attribute", "start_tag"}
TagNames == Recognized \cup {"unknown", "Append", "", "appendx"}

RunIdle ==
    /\ settings = [game_directory |-> "unset", verbose |-> FALSE]
    /\ termOk = TRUE
    /\ paths = <<>>
    /\ pc = "idle"
    /\ segs = <<>>
    /\ constructed = {}
    /\ loadRes = <<>>
    /\ loaded_modlets = <<>>
    /\ packaged = None
    /\ reported = None
    /\ result = "none"

InitCmd ==
    /\ \E s \in TagNames : input = s /\ cmd = from_str(s)
    /\ lastIs = new
    /\ nset = 0
    /\ op = "from_str"
    /\ out = <<>>
    /\ res = "none"
    /\ RunIdle

CallFromStr ==
    /\ \E s \in TagNames : input' = s /\ cmd' = from_str(s)
    /\ lastIs' = new
    /\ nset' = 0
    /\ op' = "from_str"
    /\ out' = <<>>
    /\ res' = "none"
    /\ UNCHANGED runVars

CallSet ==
    /\ \E is \in InstructionSet : lastIs' = is /\ cmd' = set(cmd, is)
    /\ nset' = IF nset = 0 THEN 1 ELSE 2
    /\ op' = "set"
    /\ out' = <<>>
    /\ res' = "none"
    /\ UNCHANGED input
    /\ UNCHANGED runVars

CallWrite ==
    /\ op # "write"
    /\ out' = write(cmd).out
    /\ res' = write(cmd).res
    /\ op' = "write"
    /\ UNCHANGED <<input, cmd, lastIs, nset>>
    /\ UNCHANGED runVars

NextCmd == CallFromStr \/ CallSet \/ CallWrite

SpecCmd == InitCmd /\ [][NextCmd]_vars

-----------------------------------------------------------------------------
(* package.rs : data *)

\* What load looks at under a source path: its `config` entry (absent, a
\* plain file or a directory) and whether Modlet::new succeeds on it.  Every
\* path has a final UTF-8 component, as the unwraps of run and load require.
PathStates == [config : {"absent", "file", "dir"}, newOk : BOOLEAN]

GameDirs == {"unset", "missing", "exists"}

\* A piece of the parallel iterator: the paths lo..hi, the next one to fold
\* (pos), the fold accumulator vf (acc, a Vec<Modlet>; a Modlet is named by
\* the index of its path) and the number of pieces it was reduced from.
Seg(lo, hi, pos, acc, leaves) ==
    [lo |-> lo, hi |-> hi, pos |-> pos, acc |-> acc, leaves |-> leaves]

Folded(s) == s.pos = s.hi + 1

-----------------------------------------------------------------------------
(* package.rs : functions *)

\* load with the config test reduced to exists()
load_exists_only(p) ==
    IF p.config = "absent"
    THEN [res |-> "Err:InvalidModlet", new_called |-> FALSE]
    ELSE IF p.newOk
         THEN [res |-> "Ok", new_called |-> TRUE]
         ELSE [res |-> "Err:ModletNew", new_called |-> TRUE]

\* load: the result, and whether Modlet::new was called
load(p) ==
    IF ~(p.config # "absent" /\ p.config = "dir")
    THEN [res |-> "Err:InvalidModlet", new_called |-> FALSE]
    ELSE IF p.newOk
         THEN [res |-> "Ok", new_called |-> TRUE]
         ELSE [res |-> "Err:ModletNew", new_called |-> TRUE]

\* package: bundles nothing yet and returns Ok(())
package(modlets) == "Ok"

\* the game directory test that lets a missing directory through
game_dir_check_unset_only(game_dir) ==
    IF game_dir # "unset" THEN "Ok" ELSE "Err:GameDirNotSet"

\* run, lines 109-116: the game directory test
game_dir_check(game_dir) ==
    IF game_dir # "unset"
    THEN IF game_dir # "exists" THEN "Err:GameDirMissing" ELSE "Ok"
    ELSE "Err:GameDirNotSet"

\* the fold closure of run (lines 124-148) on the result of load
fold_op(vf, i, loaded) ==
    IF loaded.res = "Ok" THEN Append(vf, i) ELSE vf

\* the reduce closure with its operands exchanged
reduce_op_swapped(vf, v) == v \o vf

\* the reduce closure of run (lines 149-152)
reduce_op(vf, v) == vf \o v

\* the test of line 154 that also passes when fewer modlets loaded
all_loaded_le(loaded, count) == Len(loaded) <= count

\* run, line 154
all_loaded(loaded, count) == Len(loaded) = count

-----------------------------------------------------------------------------
(* package.rs : the state machine of run *)

CmdIdle ==
    /\ input = ""
    /\ cmd = from_str("")
    /\ lastIs = new
    /\ nset = 0
    /\ op = "idle"
    /\ out = <<>>
    /\ res = "none"

InitRun ==
    /\ settings \in [game_directory : GameDirs, verbose : BOOLEAN]
    /\ termOk \in BOOLEAN
    /\ paths \in SeqsUpTo(PathStates, MaxModlets)
    /\ pc = "start"
    /\ segs = <<>>
    /\ constructed = {}
    /\ loadRes = [i \in 1..Len(paths) |-> ""]
    /\ loaded_modlets = <<>>
    /\ packaged = None
    /\ reported = None
    /\ result = "none"
    /\ CmdIdle

\* run, lines 79-120: the banner (verbose only) and the game directory test
RunStart ==
    /\ pc = "start"
    /\ IF settings.verbose /\ ~termOk
       THEN /\ result' = "Err:clear_screen"
            /\ pc' = "done"
            /\ UNCHANGED segs
       ELSE IF game_dir_check(settings.game_directory) # "Ok"
       THEN /\ result' = game_dir_check(settings.game_directory)
            /\ pc' = "done"
            /\ UNCHANGED segs
       ELSE /\ pc' = "fold"
            /\ segs' = <<Seg(1, Len(paths), 1, <<>>, 1)>>
            /\ UNCHANGED result
    /\ UNCHANGED <<settings, termOk, paths, constructed, loadRes,
                   loaded_modlets, packaged, reported>>
    /\ UNCHANGED cmdVars

\* par_iter: a piece no worker has started on is split in two
Split ==
    /\ pc = "fold"
    /\ \E k \in 1..Len(segs) : \E m \in (segs[k].lo)..(segs[k].hi - 1) :
          /\ segs[k].pos = segs[k].lo
          /\ segs[k].acc = <<>>
          /\ segs[k].leaves = 1
          /\ segs' = SubSeq(segs, 1, k - 1)
                     \o <<Seg(segs[k].lo, m, segs[k].lo, <<>>, 1),
                          Seg(m + 1, segs[k].hi, m + 1, <<>>, 1)>>
                     \o SubSeq(segs, k + 1, Len(segs))
    /\ UNCHANGED <<settings, termOk, paths, pc, constructed, loadRes,
                   loaded_modlets, packaged, reported, result>>
    /\ UNCHANGED cmdVars

\* fold: the worker of one piece loads its next path
Fold ==
    /\ pc = "fold"
    /\ \E k \in 1..Len(segs) :
          /\ ~Folded(segs[k])
          /\ LET i == segs[k].pos
                 l == load(paths[i])
             IN /\ segs' = [segs EXCEPT
                               ![k].pos = i + 1,
                               ![k].acc = fold_op(segs[k].acc, i, l)]
                /\ loadRes' = [loadRes EXCEPT ![i] = l.res]
                /\ constructed' = IF l.new_called
                                  THEN constructed \cup {i} ELSE constructed
    /\ UNCHANGED <<settings, termOk, paths, pc, loaded_modlets, packaged,
                   reported, result>>
    /\ UNCHANGED cmdVars

\* reduce: two neighbouring finished pieces are combined
Reduce ==
    /\ pc = "fold"
    /\ \E k \in 1..(Len(segs) - 1) :
          /\ Folded(segs[k])
          /\ Folded(segs[k + 1])
          /\ segs' = SubSeq(segs, 1, k - 1)
                     \o <<Seg(segs[k].lo, segs[k + 1].hi, segs[k + 1].pos,
                              reduce_op(segs[k].acc, segs[k + 1].acc),
                              segs[k].leaves + segs[k + 1].leaves)>>
                     \o SubSeq(segs, k + 2, Len(segs))
    /\ UNCHANGED <<settings, termOk, paths, pc, constructed, loadRes,
                   loaded_modlets, packaged, reported, result>>
    /\ UNCHANGED cmdVars

\* run, lines 152-186: the reduce has produced loaded_modlets; package them
\* or report how many failed
Finish ==
    /\ pc = "fold"
    /\ Len(segs) = 1
    /\ Folded(segs[1])
    /\ loaded_modlets' = segs[1].acc
    /\ IF all_loaded(segs[1].acc, Len(paths))
       THEN /\ packaged' = Some(segs[1].acc)
            \* both arms of the match on package's result fall through
            \* to the final Ok(())
            /\ result' = IF package(segs[1].acc) = "Ok" THEN "Ok" ELSE "Ok"
            /\ UNCHANGED reported
       ELSE IF termOk
       THEN /\ reported' = Some(Len(paths) - Len(segs[1].acc))
            /\ result' = "Ok"
            /\ UNCHANGED packaged
       ELSE /\ result' = "Err:write_line"
            /\ UNCHANGED <<packaged, reported>>
    /\ pc' = "done"
    /\ UNCHANGED <<settings, termOk, paths, segs, constructed, loadRes>>
    /\ UNCHANGED cmdVars

NextRun == RunStart \/ Split \/ Fold \/ Reduce \/ Finish

SpecRun == InitRun /\ [][NextRun]_vars

-----------------------------------------------------------------------------
(* Properties of command.rs, checked under SpecCmd *)

PayloadBearing ==
    {"Append", "InsertAfter", "InsertBefore", "Remove", "RemoveAttribute",
     "Set", "SetAttribute", "Csv"}

\* C1: from_str returns, for each of the eleven recognized tag names, the
\* variant that AsRef<str> and Display both name by exactly that string, and
\* Unknown for every other string; and from_str(c.as_ref()) has the variant
\* of c for every command c.
C1_FromStrDispatch ==
    /\ op = "from_str" =>
          /\ input \in Recognized => as_ref(cmd) = input /\ fmt(cmd) = input
          /\ input \notin Recognized => cmd = Command_Unknown
    /\ from_str(as_ref(cmd)).variant = cmd.variant

C1_Witness ==
    /\ op = "write"
    /\ nset = 1
    /\ input = "insert_after"
    /\ lastIs # new
    /\ cmd = Command_InsertAfter(lastIs)

\* C7: in every command reached by from_str and any number of set calls,
\* the payload's csv_op is set if and only if the variant is Csv.
C7_CsvOpIffCsv ==
    (IsSome(cmd.payload) /\ IsSome(cmd.payload[1].csv_op))
        <=> cmd.variant = "Csv"

\* C8: set leaves Unknown as it is, without a payload, and write on Unknown
\* emits nothing and returns a failure.
C8_UnknownReported ==
    /\ (op = "set" /\ input \notin Recognized) => cmd = Command_Unknown
    /\ (op = "write" /\ cmd.variant = "Unknown") => out = <<>> /\ res # "Ok"

\* the start elements among written events
Starts(events) == {i \in 1..Len(events) : events[i].kind = "Start"}

\* C9: write on a payload-bearing command writes exactly one element, whose
\* tag is the command's name and whose xpath attribute is the payload's
\* xpath; the payload's attribute and csv_op, when set, appear in the output.
C9_WriteReemits ==
    (op = "write" /\ cmd.variant \in PayloadBearing) =>
        /\ Cardinality(Starts(out)) = 1
        /\ \A i \in Starts(out) :
              /\ out[i].name = as_ref(cmd)
              /\ \E a \in 1..Len(out[i].attrs) :
                    /\ out[i].attrs[a].key = "xpath"
                    /\ out[i].attrs[a].value = cmd.payload[1].xpath
              /\ IsSome(cmd.payload[1].attribute) =>
                    \E a \in 1..Len(out[i].attrs) :
                        out[i].attrs[a].value = cmd.payload[1].attribute[1]
              /\ IsSome(cmd.payload[1].csv_op) =>
                    \E a \in 1..Len(out[i].attrs) :
                        out[i].attrs[a].key = "op"

\* the strings of s.values (empty for one that is not UTF-8) with a comma
\* between neighbours
RECURSIVE CommaJoined(_, _)
CommaJoined(is, k) ==
    IF k = 0 THEN <<>>
    ELSE CommaJoined(is, k - 1)
         \o (IF k = 1 THEN <<>> ELSE <<44>>)
         \o (IF \E j \in 1..Len(is.values[k].bytes) :
                   is.values[k].bytes[j] > 127
             THEN <<>> ELSE is.values[k].bytes)

\* C10: a set call keeps the variant; a payload-bearing variant then carries
\* exactly the given InstructionSet, Comment the comma-joined strings of its
\* values, and NoOp, StartTag and Unknown are as before.  Setting the result
\* again with the same InstructionSet changes nothing, and after any earlier
\* set calls the command is the one a single set of the last InstructionSet
\* makes of from_str's command, which gives c.set(a).set(b) = c.set(b) for
\* every reachable command c.
C10_SetOverwrites ==
    [][op' = "set" =>
          /\ cmd'.variant = cmd.variant
          /\ as_ref(cmd') = as_ref(cmd)
          /\ cmd.variant \in PayloadBearing => cmd'.payload = Some(lastIs')
          /\ cmd.variant = "Comment" =>
                /\ cmd'.text = CommaJoined(lastIs', Len(lastIs'.values))
                /\ cmd'.payload = None
          /\ cmd.variant \in {"NoOp", "StartTag", "Unknown"} => cmd' = cmd
          /\ set(cmd', lastIs') = cmd'
          /\ cmd' = set(from_str(input), lastIs')
          /\ \A b \in {new, lastIs} : set(cmd', b) = set(cmd, b)
    ]_vars

C10_Witness ==
    /\ op = "set"
    /\ nset = 2
    /\ cmd.variant = "Comment"
    /\ Len(lastIs.values) = 2
    /\ cmd.text = <<97, 38, 44>>

-----------------------------------------------------------------------------
(* Properties of package.rs, checked under SpecRun *)

N == Len(paths)
Failed == {i \in 1..N : loadRes[i] \notin {"", "Ok"}}
LoadedOk == {i \in 1..N : loadRes[i] = "Ok"}

\* the game directory test has passed
PastCheck ==
    \/ pc = "fold"
    \/ pc = "done" /\ result \in {"Ok", "Err:write_line"}

\* the indices of lo..hi whose load returned Ok, in increasing order
RECURSIVE OkInOrder(_, _)
OkInOrder(lo, hi) ==
    IF hi < lo THEN <<>>
    ELSE OkInOrder(lo, hi - 1)
         \o (IF loadRes[hi] = "Ok" THEN <<hi>> ELSE <<>>)

\* C2: once the game directory test has passed, package is called exactly
\* when every source modlet loaded without error; when one failed, package
\* is not called and the failure count written is the number of source
\* modlets minus the number that loaded.
C2_PackageIffAllLoaded ==
    /\ (pc = "done" /\ PastCheck) =>
          /\ IsSome(packaged) <=> LoadedOk = 1..N
          /\ Failed # {} =>
                /\ packaged = None
                /\ termOk => reported = Some(N - Cardinality(LoadedOk))
    /\ IsSome(reported) =>
          /\ Failed # {}
          /\ reported[1] = N - Cardinality(LoadedOk)
    /\ pc # "done" => packaged = None /\ reported = None

C2_Witness ==
    /\ pc = "done"
    /\ N = 3
    /\ Cardinality(Failed) = 2
    /\ reported = Some(2)
    /\ packaged = None

\* C3: when a source modlet is invalid or fails to load, run returns an
\* error and not Ok.
C3_ErrWhenLoadFails ==
    (pc = "done" /\ Failed # {}) => result # "Ok"

\* C4: load fails with Invalid Modlet for every path whose config entry is
\* absent or not a directory, without calling Modlet::new, and the path gets
\* no entry in any accumulator or in loaded_modlets.
C4_InvalidModlet ==
    \A i \in 1..N : paths[i].config # "dir" =>
        /\ loadRes[i] \in {"", "Err:InvalidModlet"}
        /\ (pc = "done" /\ PastCheck) => loadRes[i] = "Err:InvalidModlet"
        /\ i \notin constructed
        /\ \A k \in 1..Len(segs) :
               \A j \in 1..Len(segs[k].acc) : segs[k].acc[j] # i
        /\ \A j \in 1..Len(loaded_modlets) : loaded_modlets[j] # i

C4_Witness ==
    /\ pc = "done"
    /\ \E i \in 1..N : paths[i].config = "file" /\ paths[i].newOk
                       /\ loadRes[i] = "Err:InvalidModlet"
    /\ \E i \in 1..N : paths[i].config = "absent"
                       /\ loadRes[i] = "Err:InvalidModlet"
    /\ Len(loaded_modlets) = 1

\* C5: when the game directory is unset or does not exist, run returns an
\* error, loads no source modlet and never calls package.
C5_GameDirFirst ==
    settings.game_directory \in {"unset", "missing"} =>
        /\ pc \in {"start", "done"}
        /\ pc = "done" => result \in {"Err:GameDirNotSet",
                                      "Err:GameDirMissing",
                                      "Err:clear_screen"}
        /\ \A i \in 1..N : loadRes[i] = ""
        /\ constructed = {}
        /\ segs = <<>>
        /\ packaged = None

C5_Witness ==
    /\ pc = "done"
    /\ settings.game_directory = "missing"
    /\ result = "Err:GameDirMissing"
    /\ N = 2
    /\ \A i \in 1..N : paths[i].config = "dir" /\ paths[i].newOk

\* C6: however the paths are split among workers and however the workers
\* interleave, every accumulator holds exactly the modlets of its paths
\* loaded so far that loaded without error, each once and in input order,
\* and so does loaded_modlets for the whole input.
C6_FoldReduceOrdered ==
    /\ \A k \in 1..Len(segs) :
          segs[k].acc = OkInOrder(segs[k].lo, segs[k].pos - 1)
    /\ (pc = "done" /\ PastCheck) => loaded_modlets = OkInOrder(1, N)

C6_Witness ==
    /\ pc = "done"
    /\ N = 3
    /\ Len(segs) = 1
    /\ segs[1].leaves = 3
    /\ loaded_modlets = <<1, 3>>

=============================================================================
